---------------------------- MODULE Spec2Model ----------------------------
(***************************************************************************)
(* LinarADC (lib/LinarADC/LinarADC.h): ESP32 ADC calibration session.      *)
(*                                                                         *)
(* The session sweeps the DAC, builds a lookup table (generateLut),        *)
(* persists it in one of three encodings (saveFile), reloads and validates *)
(* it (calibration), and later serves read() from the loaded table or a    *)
(* fallback polynomial (begin / read).                                     *)
(*                                                                         *)
(* Scaling.  The source sweeps 256 DAC codes and keeps a table of          *)
(* 256 * 16 = 4096 entries.  The model sweeps NumCoarse codes and keeps    *)
(* NumCoarse * 16 entries; every size of the source that is derived from   *)
(* 4096 is derived here from TableSize in the same way, but for the span   *)
(* of the validator's normalisation, which is kept.  float values are      *)
(* fixed-point integers with Q units per code, rounded down.               *)
(***************************************************************************)
EXTENDS Integers, Sequences, FiniteSets, TLC

\* ---------------------------------------------------------------- sizes

\* DAC codes swept by generateLut (256 in the source: for i < 256).
NumCoarse == 5

\* Table entries between two coarse DAC codes (results[i * 16]).
Step == 16

\* Oversampling factor of the fine grid (res2[i*5+j], j < 5).
Over == 5

\* Divisor of the fine-grid interpolation ((float)j / (float)10.0).
FineDiv == 10

\* Outer repetitions of the coarse sweep (for j < 500).
SweepReps == 500

\* Progress signal period of the coarse sweep (j % 100 == 0).
ProgressEvery == 100

\* const int maxAttempts = 1000.
maxAttempts == 1000

\* sizeof(int) on the ESP32.
SizeofInt == 4

\* Length of the table (4096 in the source) and of the persisted record
\* (4097: results has one closing slot more).
TableSize == NumCoarse * Step
RecordSize == TableSize + 1

\* Index probed by begin() (calibrationArray[1000] in the source), scaled
\* into the table of the model.
SanityIdx == 10

\* The validator walks DAC codes 1..249 of 0..255.
LastValCode == NumCoarse - 1

\* The span the validator normalises by (/ 3968).  Errors are counted in
\* codes here as in the source, so the span is the source's: one code of
\* error is the same fraction of it in the model.
ValRange == 3968

\* Fixed-point units per code for float values.
Q == 16 * 100

\* float -> int conversion (static_cast<int>) of a non-negative value.
ToInt(f) == f \div Q

\* ------------------------------------------------------------- arrays
\* C arrays are sequences; index k of the source is position k + 1.

At(arr, k) == arr[k + 1]

Put(arr, k, v) == [arr EXCEPT ![k + 1] = v]

ZeroArray(n) == [k \in 1..n |-> 0]

Max2(a, b) == IF a > b THEN a ELSE b

Min2(a, b) == IF a < b THEN a ELSE b

Abs(x) == IF x < 0 THEN -x ELSE x

\* An array held in memory: the same function, with every element computed
\* once (the comparison makes TLC evaluate it in full).
Stored(arr) == IF arr = arr THEN arr ELSE arr

\* ---------------------------------------------------------- ADC and DAC
\* analogRead is the environment.  During the coarse sweep the reading is a
\* function of the DAC code and of the repetition; each behaviour is one
\* such function, with readings in 0..TableSize-1 (12 bits in the source).

AdcBehaviours == {"linear", "zero", "floor", "noisy"}

SweepReading(b, code, rep) ==
    CASE b = "linear" -> code * Step
      [] b = "zero"   -> 0
      [] b = "floor"  -> Max2(SanityIdx, code * Step)
      [] b = "noisy"  -> code * Step + (rep % 2)

\* While the validator walks the DAC codes the reading is a function of the
\* code, one of these.
ValBehaviours == {"linear", "plus1", "zero", "stuck"}

ValReading(b, code) ==
    CASE b = "linear" -> code * Step
      [] b = "plus1"  -> code * Step + 1
      [] b = "zero"   -> 0
      [] b = "stuck"  -> SanityIdx

\* Readings the ADC may return to read().
AdcReadings == {0, 1, SanityIdx, Step, Step + 1, TableSize - 1}

\* ------------------------------------------------------------ LUT builder

\* results[i*16] = 0.9 * results[i*16] + 0.1 * analogRead(adcPinCalib)
EmaStep(old, sample) == (9 * old + sample * Q) \div 10

\* Repetitions lo..hi-1 of the sweep for one DAC code, in order.
RECURSIVE EmaReps(_, _, _, _, _)
EmaReps(b, code, lo, hi, old) ==
    IF hi - lo = 1
        THEN EmaStep(old, SweepReading(b, code, lo))
        ELSE LET mid   == lo + ((hi - lo) \div 2)
                 first == EmaReps(b, code, lo, mid, old)
             IN  IF first \in Int
                     THEN EmaReps(b, code, mid, hi, first)
                     ELSE old

\* The coarse sweep: results[i*16] after the 500 repetitions.
CoarseSweep(res, b) ==
    [k \in 1..RecordSize |->
        IF (k - 1) % Step = 0 /\ (k - 1) < TableSize
            THEN EmaReps(b, (k - 1) \div Step, 0, SweepReps, res[k])
            ELSE res[k]]

\* results[4096] = 4095.0, then the 15 slots between two coarse samples.
Interpolate(res) ==
    LET top == Stored(Put(res, TableSize, (TableSize - 1) * Q))
    IN  [k \in 1..RecordSize |->
            LET i == (k - 1) \div Step
                j == (k - 1) % Step
            IN  IF k - 1 = TableSize \/ j = 0
                    THEN top[k]
                    ELSE At(top, i * Step)
                         + ((At(top, (i + 1) * Step) - At(top, i * Step)) * j)
                           \div Step]

\* results[i] = 0.5 + results[i] for i < 4096, then results[4096] = 4095.5.
HalfCodeOffset(res) ==
    [k \in 1..RecordSize |->
        IF k - 1 = TableSize
            THEN (TableSize - 1) * Q + (Q \div 2)
            ELSE res[k] + (Q \div 2)]

\* res2[i*5+j] = results[i] + (results[i+1] - results[i]) * j / 10.
FineGrid(res) ==
    [n \in 1..(TableSize * Over) |->
        LET i == (n - 1) \div Over
            j == (n - 1) % Over
        IN  At(res, i) + ((At(res, i + 1) - At(res, i)) * j) \div FineDiv]

\* One comparison of the scan: the later index b replaces a only when it is
\* strictly nearer to target code i.
NearestOf(fine, i, a, b) ==
    IF Abs(i * Q - At(fine, b)) < Abs(i * Q - At(fine, a)) THEN b ELSE a

\* The scan of the fine grid for target code i keeps the first index of
\* strictly smallest distance (if (diff < minDiff)).
RECURSIVE Nearest(_, _, _, _)
Nearest(fine, i, lo, hi) ==
    IF lo = hi
        THEN lo
        ELSE LET mid == lo + ((hi - lo) \div 2)
             IN  NearestOf(fine, i, Nearest(fine, i, lo, mid),
                                    Nearest(fine, i, mid + 1, hi))

\* An inversion without the closing results[0] = 0, entry 0 being what the
\* descale by 5 leaves of it: what C12 rules out.
InvertUnforced(res, fine) ==
    [k \in 1..RecordSize |->
        IF k - 1 = 0 THEN res[k] \div Over
        ELSE IF k - 1 = TableSize THEN res[k]
        ELSE (Nearest(fine, k - 1, 0, TableSize * Over - 1) * Q) \div Over]

\* Inversion, descale by 5, results[0] = 0; results[4096] keeps 4095.5.
Invert(res, fine) ==
    [k \in 1..RecordSize |->
        IF k - 1 = 0 THEN 0
        ELSE IF k - 1 = TableSize THEN res[k]
        ELSE (Nearest(fine, k - 1, 0, TableSize * Over - 1) * Q) \div Over]

\* generateLut() on the sweep buffer res under ADC behaviour b.
generateLut(res, b) ==
    LET swept  == Stored(CoarseSweep(res, b))
        interp == Stored(Interpolate(swept))
        offs   == Stored(HalfCodeOffset(interp))
        fine   == Stored(FineGrid(offs))
    IN  Stored(Invert(offs, fine))

\* The buffer the fine grid is taken from: the sweep, interpolated, offset
\* by half a code, closed by 4095.5.
SweepBuffer(res, b) ==
    Stored(HalfCodeOffset(Stored(Interpolate(Stored(CoarseSweep(res, b))))))

\* The constructor zeroes results (memset), so the first sweep starts here.
LutFromZero == [b \in AdcBehaviours |-> generateLut(ZeroArray(RecordSize), b)]

\* The offset buffer and the fine grid (res2) of that first sweep; res2 is
\* freed when generateLut() returns.
OffsetFromZero ==
    [b \in AdcBehaviours |-> SweepBuffer(ZeroArray(RecordSize), b)]

FineFromZero == [b \in AdcBehaviours |-> Stored(FineGrid(OffsetFromZero[b]))]

\* ------------------------------------------------------------- storage
\* A file is [exists, data].  The data of a .txt file is a sequence of
\* characters, of a .bin file a sequence of bytes, of a .json file what
\* deserializeJson makes of it: [parses, key, arr], each element of arr a
\* JSON value that is an integer (int = TRUE) or is not.

FileTypes == {".txt", ".bin", ".json", ".csv"}

\* String file = "CalibrationResults" (constructor default).
fileName == "CalibrationResults"

NoData(ft) ==
    IF ft = ".json" THEN [parses |-> FALSE, key |-> "", arr |-> <<>>] ELSE <<>>

NoFile(ft) == [exists |-> FALSE, data |-> NoData(ft)]

FileOf(d) == [exists |-> TRUE, data |-> d]

\* ---------------------------------------------------------- text codec

DigitChars == <<"0", "1", "2", "3", "4", "5", "6", "7", "8", "9">>

IsDigit(c) == \E d \in 1..10 : DigitChars[d] = c

DigitVal(c) == (CHOOSE d \in 1..10 : DigitChars[d] = c) - 1

\* file.print(intValue): the decimal text of an int.
RECURSIVE DecimalText(_)
DecimalText(n) ==
    IF n < 0 THEN <<"-">> \o DecimalText(-n)
    ELSE IF n < 10 THEN <<DigitChars[n + 1]>>
    ELSE DecimalText(n \div 10) \o <<DigitChars[(n % 10) + 1]>>

\* The loop of writeFloatAsIntToTxt over elements lo..hi of the array:
\* print(static_cast<int>(array[i])), then "," unless i is the last one.
RECURSIVE TxtElems(_, _, _, _)
TxtElems(array, size, lo, hi) ==
    IF lo = hi
        THEN DecimalText(ToInt(At(array, lo)))
             \o (IF lo < size - 1 THEN <<",">> ELSE <<>>)
        ELSE LET mid == lo + ((hi - lo) \div 2)
             IN  TxtElems(array, size, lo, mid)
                 \o TxtElems(array, size, mid + 1, hi)

writeFloatAsIntToTxt(array, size) ==
    Stored(TxtElems(array, size, 0, size - 1))

\* strtok(data, ","): a token starts at every character that is no comma
\* and follows a comma or the start; empty tokens do not exist.
IsTokenStart(data, p) ==
    data[p] # "," /\ (p = 1 \/ data[p - 1] = ",")

\* atoi: an optional sign, then digits up to the first other character.
RECURSIVE AtoiDigits(_, _, _)
AtoiDigits(data, p, acc) ==
    IF p > Len(data) \/ ~IsDigit(data[p])
        THEN acc
        ELSE AtoiDigits(data, p + 1, acc * 10 + DigitVal(data[p]))

atoi(data, p) ==
    IF data[p] = "-" THEN -AtoiDigits(data, p + 1, 0)
    ELSE IF data[p] = "+" THEN AtoiDigits(data, p + 1, 0)
    ELSE AtoiDigits(data, p, 0)

\* The token starts among positions lo..hi, in order.
RECURSIVE StartsIn(_, _, _)
StartsIn(data, lo, hi) ==
    IF lo > hi THEN <<>>
    ELSE IF lo = hi
        THEN (IF IsTokenStart(data, lo) THEN <<lo>> ELSE <<>>)
    ELSE LET mid == lo + ((hi - lo) \div 2)
         IN  StartsIn(data, lo, mid) \o StartsIn(data, mid + 1, hi)

\* The values of the tokens of a text payload, in order.
TxtTokens(data) ==
    LET starts == Stored(StartsIn(data, 1, Len(data)))
    IN  Stored([n \in 1..Len(starts) |-> atoi(data, starts[n])])

\* ---------------------------------------------------------- binary codec

\* The bytes of an int in memory (little-endian two's complement).
IntBytes(v) ==
    [k \in 1..SizeofInt |->
        CASE k = 1 -> v % 256
          [] k = 2 -> (v \div 256) % 256
          [] k = 3 -> (v \div 65536) % 256
          [] OTHER -> (v \div 16777216) % 256]

\* A read that keeps the low byte only: what C8 rules out.
BytesIntLowByte(b) == b[1]

\* The int that four bytes in memory hold.
BytesInt(b) ==
    b[1] + 256 * b[2] + 65536 * b[3]
    + 16777216 * (IF b[4] >= 128 THEN b[4] - 256 ELSE b[4])

\* writeFloatAsIntToBin: sizeof(int) bytes of static_cast<int>(array[i])
\* for every i < size.
writeFloatAsIntToBin(array, size) ==
    Stored([n \in 1..(size * SizeofInt) |->
               IntBytes(ToInt(At(array, (n - 1) \div SizeofInt)))
                   [((n - 1) % SizeofInt) + 1]])

\* file.read(buf, sizeof(int)) at position pos: the bytes left are read, at
\* most sizeof(int) of them.
FileRead(bytes, pos) == Min2(SizeofInt, Len(bytes) - pos)

\* One pass of   while (bytesRead != sizeof(int)) { read; attempts++; }
\* over the loop state [pos, bytesRead, attempts].
ReadAttempt(bytes, st) ==
    IF st.bytesRead = SizeofInt
        THEN st
        ELSE [pos       |-> st.pos + FileRead(bytes, st.pos),
              bytesRead |-> FileRead(bytes, st.pos),
              attempts  |-> st.attempts + 1]

\* n passes of that loop, one after the other.
RECURSIVE ReadAttempts(_, _, _)
ReadAttempts(bytes, st, n) ==
    IF st.bytesRead = SizeofInt \/ n = 0 THEN st
    ELSE IF n = 1 THEN ReadAttempt(bytes, st)
    ELSE LET first == ReadAttempts(bytes, st, n \div 2)
         IN  IF first.bytesRead = SizeofInt
                 THEN first
                 ELSE ReadAttempts(bytes, first, n - (n \div 2))

\* The read loop of the element at position pos, followed for one pass more
\* than maxAttempts: the loop has no exit on attempts, so a loop state with
\* bytesRead # sizeof(int) here is a loop that is still running.
ReadElement(bytes, pos) ==
    ReadAttempts(bytes, [pos |-> pos, bytesRead |-> 0, attempts |-> 0],
                 maxAttempts + 1)

\* ------------------------------------------------------------ JSON codec

JsonInt(v) == [int |-> TRUE, v |-> v]

JsonOther == [int |-> FALSE, v |-> 0]

\* jsonValue.as<int>(): the integer, or 0 for any other JSON value.
AsInt(e) == IF e.int THEN e.v ELSE 0

\* writeFloatAsIntToJson: one array field, named fileName, of
\* static_cast<int>(array[i]) for every i < size.
writeFloatAsIntToJson(array, size) ==
    [parses |-> TRUE,
     key    |-> fileName,
     arr    |-> Stored([n \in 1..size |-> JsonInt(ToInt(At(array, n - 1)))])]

\* ------------------------------------------------------ storage contents
\* The records an external writer may have left under the session's path,
\* rendered with the encoders above, and damaged variants of them.

FloatArray(ints) == [k \in 1..Len(ints) |-> ints[k] * Q]

IdentityRecord == [k \in 1..RecordSize |-> k - 1]

ShiftedRecord == [k \in 1..RecordSize |-> ((k + 6) % TableSize) + 1]

ZeroSanityRecord == [IdentityRecord EXCEPT ![SanityIdx + 1] = 0]

ShortRecord == [k \in 1..SanityIdx |-> k + 20]

LongRecord == [k \in 1..(RecordSize + 2) |-> (k % TableSize) + 2]

Records ==
    {IdentityRecord, ShiftedRecord, ZeroSanityRecord, ShortRecord,
     LongRecord, <<>>}

TxtOf(ints) ==
    IF ints = <<>> THEN <<>>
    ELSE writeFloatAsIntToTxt(FloatArray(ints), Len(ints))

BinOf(ints) == writeFloatAsIntToBin(FloatArray(ints), Len(ints))

JsonOf(ints) == writeFloatAsIntToJson(FloatArray(ints), Len(ints))

Payloads ==
    [ft \in FileTypes |->
        IF ft = ".txt"
            THEN {TxtOf(r) : r \in Records}
                 \cup {<<"x", ",">> \o TxtOf(IdentityRecord)}
        ELSE IF ft = ".json"
            THEN {JsonOf(r) : r \in Records}
                 \cup {NoData(".json"),
                       [JsonOf(IdentityRecord) EXCEPT !.key = "other"],
                       [JsonOf(IdentityRecord) EXCEPT !.arr[1] = JsonOther]}
        ELSE IF ft = ".bin"
            THEN {BinOf(r) : r \in Records}
                 \cup {BinOf(ShortRecord) \o <<1>>}
        ELSE {BinOf(IdentityRecord)}]

Files(ft) == {NoFile(ft)} \cup {FileOf(d) : d \in Payloads[ft]}

\* The payloads of save(): what each encoding makes of the table of each ADC
\* behaviour, rendered once.
Encoded(ft, res, size) ==
    IF ft = ".txt" THEN writeFloatAsIntToTxt(res, size)
    ELSE IF ft = ".bin" THEN writeFloatAsIntToBin(res, size)
    ELSE writeFloatAsIntToJson(res, size)

SavedData ==
    [ft \in {".txt", ".bin", ".json"} |->
        [b \in AdcBehaviours |-> Encoded(ft, LutFromZero[b], RecordSize)]]

\* Every payload the storage of the model can hold, per encoding.
KnownData ==
    [ft \in FileTypes |->
        Payloads[ft] \cup
        (IF ft = ".csv" THEN {}
         ELSE {SavedData[ft][b] : b \in AdcBehaviours})]


\* ----------------------------------------------------------- decoding
\* What the loads read out of a payload, before anything is stored: computed
\* once for every payload of KnownData, and on the spot for any other.

TxtTokensOf == [d \in KnownData[".txt"] |-> TxtTokens(d)]

TxtValues(data) ==
    IF data \in DOMAIN TxtTokensOf THEN TxtTokensOf[data] ELSE TxtTokens(data)

\* The element reads of readIntArrayFromBin for indices 0..maxSize-1:
\*   for (index = 0; index < maxSize && file.available(); ++index)
\* attempted[k]: the loop reaches index k with bytes left; reads[k]: the read
\* loop of that element; vals[k]: the int it read.
BinScan(bytes, maxSize) ==
    LET attempted == [k \in 1..maxSize |-> (k - 1) * SizeofInt < Len(bytes)]
        reads == [k \in 1..maxSize |->
                     IF attempted[k]
                         THEN ReadElement(bytes, (k - 1) * SizeofInt)
                         ELSE [pos |-> 0, bytesRead |-> 0, attempts |-> 0]]
    IN  [attempted |-> Stored(attempted),
         reads     |-> Stored(reads),
         vals      |-> Stored([k \in 1..maxSize |->
                           IF attempted[k] /\ reads[k].bytesRead = SizeofInt
                               THEN BytesInt(SubSeq(bytes,
                                        (k - 1) * SizeofInt + 1,
                                        k * SizeofInt))
                               ELSE 0])]

BinScanOf == [d \in KnownData[".bin"] |-> BinScan(d, TableSize)]

BinScanned(bytes, maxSize) ==
    IF maxSize = TableSize /\ bytes \in DOMAIN BinScanOf
        THEN BinScanOf[bytes] ELSE BinScan(bytes, maxSize)

\* ---------------------------------------------------------------- loads
\* A load returns [ok, array, log, spinning]: the bool of the source, the
\* destination array as the load leaves it, the lines it logs, and whether
\* it is still in a read loop after more than maxAttempts passes.

LoadResult(ok, array, log) ==
    [ok |-> ok, array |-> array, log |-> log, spinning |-> FALSE]

\* Passes of   while (array[index] != value) { array[index] = value; attempts++; }
StoreAttempts(array, index, value) ==
    IF At(array, index) # value THEN 1 ELSE 0

\* The least index of a set of indices, or none when it is empty.
FirstOf(indices, none) ==
    IF indices = {} THEN none
    ELSE CHOOSE k \in indices : \A m \in indices : k <= m

\* The element loop shared by the text and JSON loads: the first n values
\* are stored in order; the load fails at the first index whose attempts
\* reach maxAttempts, with that element already written.
StoreFailing(array, vals, n) ==
    {k \in 0..(n - 1) : StoreAttempts(array, k, vals[k + 1]) >= maxAttempts}

StoreUpTo(array, vals, stop, failed) ==
    [ok    |-> ~failed,
     array |-> Stored([k \in 1..Len(array) |->
                          IF k - 1 <= stop THEN vals[k] ELSE array[k]])]

StoreValues(array, vals, n) ==
    StoreUpTo(array, vals, FirstOf(StoreFailing(array, vals, n), n - 1),
              StoreFailing(array, vals, n) # {})

\* The return of the text load once its element loop ended as st.
TxtOutcome(st) ==
    LoadResult(st.ok, st.array,
               IF st.ok THEN <<"int array read">>
               ELSE <<"failed to read int after multiple attempts">>)

TxtLoad(vals, array, maxSize) ==
    TxtOutcome(StoreValues(array, vals, Min2(Len(vals), maxSize)))

readIntArrayFromTxt(file, array, maxSize) ==
    IF ~file.exists
        THEN LoadResult(FALSE, array, <<"failed to open file for reading">>)
        ELSE TxtLoad(TxtValues(file.data), array, maxSize)

\* The return of the JSON load once its element loop ended as st; exceeded
\* is whether the iteration met an element at index >= size.
JsonOutcome(st, exceeded) ==
    LoadResult(st.ok, st.array,
               IF ~st.ok
                   THEN <<"failed to read int after multiple attempts">>
               ELSE IF exceeded
                   THEN <<"array size exceeded, some values were not read",
                          "JSON file successfully read">>
               ELSE <<"JSON file successfully read">>)

JsonLoad(vals, array, size) ==
    JsonOutcome(StoreValues(array, vals, Min2(Len(vals), size)),
                Len(vals) > size)

\* jsonCalibrationResults[fileName].as<JsonArray>(), each element as<int>().
JsonValues(data) ==
    IF data.key = fileName
        THEN [n \in 1..Len(data.arr) |-> AsInt(data.arr[n])]
        ELSE <<>>

readIntArrayFromJson(file, array, size) ==
    IF ~file.exists
        THEN LoadResult(FALSE, array, <<"failed to open file for reading">>)
    ELSE IF ~file.data.parses
        THEN LoadResult(FALSE, array, <<"failed to parse JSON file">>)
    ELSE JsonLoad(JsonValues(file.data), array, size)

\* The indices at which the binary load ends early: the read loop of the
\* element never gets sizeof(int) bytes, or the attempts of its read loop
\* and its store loop together reach maxAttempts.
BinEnds(scan, array, maxSize) ==
    {k \in 0..(maxSize - 1) :
        /\ scan.attempted[k + 1]
        /\ \/ scan.reads[k + 1].bytesRead # SizeofInt
           \/ scan.reads[k + 1].attempts
              + StoreAttempts(array, k, scan.vals[k + 1]) >= maxAttempts}

\* The array once the loop has ended at index stop (maxSize: ran through).
BinWritten(scan, array, maxSize, stop) ==
    Stored([k \in 1..Len(array) |->
               IF /\ k <= maxSize
                  /\ k - 1 <= stop
                  /\ scan.attempted[k]
                  /\ scan.reads[k].bytesRead = SizeofInt
                   THEN scan.vals[k] ELSE array[k]])

BinOutcome(scan, array, maxSize, stop) ==
    IF stop = maxSize
        THEN LoadResult(TRUE, BinWritten(scan, array, maxSize, stop),
                        <<"int array read from binary file">>)
    ELSE IF scan.reads[stop + 1].bytesRead # SizeofInt
        THEN [ok |-> FALSE, array |-> BinWritten(scan, array, maxSize, stop),
              log |-> <<>>, spinning |-> TRUE]
    ELSE LoadResult(FALSE, BinWritten(scan, array, maxSize, stop),
                    <<"failed to read int after multiple attempts">>)

BinLoad(scan, array, maxSize) ==
    BinOutcome(scan, array, maxSize,
               FirstOf(BinEnds(scan, array, maxSize), maxSize))

readIntArrayFromBin(file, array, maxSize) ==
    IF ~file.exists
        THEN LoadResult(FALSE, array, <<"failed to open file for reading">>)
        ELSE BinLoad(BinScanned(file.data, maxSize), array, maxSize)

\* openFile(): the load of the configured encoding into calibrationArray.
openFile(ft, file, array) ==
    IF ft = ".txt" THEN readIntArrayFromTxt(file, array, TableSize)
    ELSE IF ft = ".json" THEN readIntArrayFromJson(file, array, TableSize)
    ELSE IF ft = ".bin" THEN readIntArrayFromBin(file, array, TableSize)
    ELSE LoadResult(FALSE, array, <<"Unsupported file type">>)

\* -------------------------------------------------------------- signals
\* ledIndication(pin, isLong): one pulse on led1 (green) or led2 (red).

Pulse(led, long) == [led |-> led, long |-> long]

\* triggerLed(status): a short pulse on led1, or a long one on led2.
triggerLed(status) == IF status THEN Pulse(1, FALSE) ELSE Pulse(2, TRUE)

\* deleteFile(): fs.remove(path) and the line it logs.
deleteFile(ft, file) ==
    [file |-> NoFile(ft),
     log  |-> IF file.exists THEN <<"File deleted">>
              ELSE <<"Failed to delete file">>]

\* ----------------------------------------------------------------- save

\* saveFile(): delete the old record, then write results in the configured
\* encoding; canOpen is whether fs.open(path, FILE_WRITE) succeeds.
saveFile(ft, file, res, canOpen) ==
    LET del == deleteFile(ft, file)
    IN  IF ft \notin {".txt", ".bin", ".json"}
            THEN [ok |-> FALSE, file |-> del.file,
                  log |-> del.log \o <<"Unsupported file type">>,
                  signals |-> <<Pulse(2, TRUE)>>]
        ELSE IF ~canOpen
            THEN [ok |-> FALSE, file |-> del.file,
                  log |-> del.log \o <<"Failed to open file for writing">>,
                  signals |-> <<>>]
        ELSE [ok |-> TRUE,
              file |-> FileOf(
                  IF \E b \in AdcBehaviours : res = LutFromZero[b]
                      THEN SavedData[ft][CHOOSE b \in AdcBehaviours :
                                            res = LutFromZero[b]]
                      ELSE Encoded(ft, res, RecordSize)),
              log |-> del.log \o <<"Float array saved">>,
              signals |-> <<>>]

\* ------------------------------------------------------------ validator
\* A float accumulator is [nan, v]: not-a-number, or the value v.

Float(v) == [nan |-> FALSE, v |-> v]

NaN == [nan |-> TRUE, v |-> 0]

FloatAdd(f, n) == IF f.nan THEN f ELSE Float(f.v + n)

\* Number of DAC codes the validator measures (the divisor 249).
ValCount == LastValCode

\* float mseCalibrated; is never initialised: the accumulator starts from
\* whatever the stack holds, here zero, a large value, or not-a-number.
GarbageFloats == {Float(0), Float(ValCount * ValRange * ValRange), NaN}

\* Sum over DAC codes lo..hi of (i*16 - calibrationArray[rawReading])^2.
RECURSIVE SquaredError(_, _, _, _)
SquaredError(array, readings, lo, hi) ==
    IF lo > hi THEN 0
    ELSE (lo * Step - At(array, readings[lo]))
             * (lo * Step - At(array, readings[lo]))
         + SquaredError(array, readings, lo + 1, hi)

\* The largest integer sum of squared errors s with
\* sqrt(s / 249) / 3968 * 100 <= 1, that is s * 10000 <= 249 * 3968^2
\* (392051 in the source).
SqErrLimit == (ValCount * ValRange * ValRange) \div 10000

\* ((sqrt(mse / 249) / 3968) * 100) > 1, with sqrt of a negative value and
\* every comparison with not-a-number as IEEE 754 has them.
ExceedsThreshold(acc) ==
    IF acc.nan \/ acc.v < 0
        THEN FALSE
        ELSE acc.v > SqErrLimit

\* What calibration() leaves when it has not measured anything (yet).
Unmeasured(file, load) ==
    [ok |-> FALSE, file |-> file, array |-> load.array,
     log |-> <<"Testing the file">> \o load.log,
     signals |-> <<>>, verdict |-> "none", sqErr |-> 0,
     spinning |-> load.spinning]

\* A rejection that forgets deleteFile(): what C3 rules out.
RejectedKeepingRecord(base, del, sqErr) ==
    [base EXCEPT !.log = @ \o <<"Calibration error">>,
                 !.signals = <<triggerLed(TRUE)>>,
                 !.verdict = "reject",
                 !.sqErr = sqErr]

\* if (mseCalibrated > 1) { ... deleteFile(...); return false; }
Rejected(base, del, sqErr) ==
    [base EXCEPT !.file = del.file,
                 !.log = @ \o <<"Calibration error">> \o del.log,
                 !.signals = <<triggerLed(TRUE)>>,
                 !.verdict = "reject",
                 !.sqErr = sqErr]

\* else { ... ledIndication(led1Pin, true); return true; }
Accepted(base, sqErr) ==
    [base EXCEPT !.ok = TRUE,
                 !.log = @ \o <<"Calibrated mean squared error">>,
                 !.signals = <<triggerLed(TRUE), Pulse(1, TRUE)>>,
                 !.verdict = "accept",
                 !.sqErr = sqErr]

Judged(ft, file, base, sqErr, acc0) ==
    IF ExceedsThreshold(FloatAdd(acc0, sqErr))
        THEN Rejected(base, deleteFile(ft, file), sqErr)
        ELSE Accepted(base, sqErr)

\* calibration(): reload the record (load is what openFile() returned),
\* measure DAC codes 1..249 with the ADC returning readings[i], accept or
\* reject; acc0 is the initial content of mseCalibrated.
calibration(ft, file, load, readings, acc0) ==
    IF load.spinning
        THEN Unmeasured(file, load)
    ELSE IF ~load.ok
        THEN [Unmeasured(file, load) EXCEPT !.signals = <<triggerLed(FALSE)>>]
    ELSE Judged(ft, file, Unmeasured(file, load),
                SquaredError(load.array, readings, 1, LastValCode), acc0)

\* --------------------------------------------------------------- session

\* The progress pulses of the coarse sweep: one every 100 repetitions.
SweepSignals ==
    [n \in 1..Cardinality({j \in 0..(SweepReps - 1) : j % ProgressEvery = 0})
        |-> Pulse(1, FALSE)]

\* A mount failure that signals nothing: what C9 rules out.
spiffsRunSilent(mount) ==
    IF mount THEN [ok |-> TRUE, log |-> <<>>, signals |-> <<>>]
    ELSE [ok |-> FALSE, log |-> <<"SPIFFS Mount Failed">>, signals |-> <<>>]

\* spiffsRun(): on a failed mount, a log line and a long pulse on led2.
\* mount is whether SPIFFS.begin(true) returns true.  The argument asks the
\* library to format a file system it cannot mount; what that does to an
\* unmountable file system lies outside this source, and a failed mount is
\* taken to leave the file under fullPath as it is.
spiffsRun(mount) ==
    IF mount THEN [ok |-> TRUE, log |-> <<>>, signals |-> <<>>]
    ELSE [ok |-> FALSE, log |-> <<"SPIFFS Mount Failed">>,
          signals |-> <<Pulse(2, TRUE)>>]

\* What a call leaves behind: its return value and what it did.
NoCall ==
    [op |-> "none", ret |-> FALSE, value |-> 0, raw |-> 0,
     mounted |-> FALSE, swept |-> FALSE, nullWrite |-> FALSE,
     spinning |-> FALSE, verdict |-> "none", sqErr |-> 0, acc0 |-> Float(0),
     sweepAdc |-> "none", valAdc |-> "none",
     signals |-> <<>>, log |-> <<>>]

\* What save() or begin() has done once spiffsRun() returned mnt.
Mounting(op, mnt) ==
    [NoCall EXCEPT !.op = op, !.mounted = mnt.ok,
                   !.log = mnt.log, !.signals = mnt.signals]

\* The rest of begin() after a successful mount, load being what openFile()
\* returned.
Loaded(c, load, useCal) ==
    IF load.spinning
        THEN [array |-> load.array, useCalibration |-> useCal,
              call |-> [c EXCEPT !.spinning = TRUE]]
    ELSE IF ~load.ok \/ At(load.array, SanityIdx) = 0
        \* return useCalibration = false;
        THEN [array |-> load.array, useCalibration |-> FALSE,
              call |-> [c EXCEPT !.log = @ \o load.log
                           \o <<"Calibration file not found or invalid">>]]
    \* return useCalibration = true;
    ELSE [array |-> load.array, useCalibration |-> TRUE,
          call |-> [c EXCEPT !.ret = TRUE, !.log = @ \o load.log]]

\* begin(): the state it leaves and the call it was.
begin(ft, file, array, useCal, mount) ==
    IF ~spiffsRun(mount).ok
        \* if (!spiffsRun()) return false;
        THEN [array |-> array, useCalibration |-> useCal,
              call |-> Mounting("begin", spiffsRun(mount))]
        ELSE Loaded(Mounting("begin", spiffsRun(mount)),
                    openFile(ft, file, array), useCal)

\* The fallback polynomial of read(), in millionths:
\*   int(4096 * (-1.6e-14 x^4 + 1.18171e-10 x^3 - 3.01211691e-7 x^2
\*               + 1.109019271794e-3 x + 0.034143524634089) / 3.3)
Polynomial(x) ==
    (42379357 + 1376528 * x - ((37387 * x * x) \div 100)
     + ((1467 * x * x * x) \div 10000)
     - ((20 * x * x * x * x) \div 1000000)) \div 1000000

\* A read() that never consults the table: what C10 rules out.
readPolynomial(array, useCal, readValue) == Polynomial(readValue)

\* A read() that indexes the table whatever the flag says: what C14 rules
\* out.
readTable(array, useCal, readValue) == At(array, readValue)

\* read(): the value returned for the ADC reading readValue.
read(array, useCal, readValue) ==
    IF useCal THEN At(array, readValue) ELSE Polynomial(readValue)

\* ----------------------------------------------------------------- state

VARIABLES
    fileType,          \* String fileType, fixed by the constructor
    file,              \* the file under fullPath on SPIFFS
    results,           \* float *results (<<>> once freed)
    res2,              \* float *res2 (<<>> once freed)
    calibrationArray,  \* int *calibrationArray
    useCalibration,    \* bool useCalibration
    pc,                \* "ready", or where the program stopped for good
    call,              \* the last call made and what it did
    persisted,         \* the record written by the last save() that returned
                       \* true, while storage is unchanged since (else <<>>)
    begun              \* begin() has mounted storage since that save()

vars == <<fileType, file, results, res2, calibrationArray, useCalibration,
          pc, call, persisted, begun>>

\* The constructor: the three arrays allocated and zeroed.
Init ==
    /\ fileType \in FileTypes
    /\ file \in Files(fileType)
    /\ results = ZeroArray(RecordSize)
    /\ res2 = ZeroArray(TableSize * Over)
    /\ calibrationArray = ZeroArray(TableSize)
    /\ useCalibration = FALSE
    /\ pc = "ready"
    /\ call = NoCall
    /\ persisted = <<>>
    /\ begun = FALSE

\* Where a call leaves the program: a write through a null pointer ends it,
\* a read loop that never exits keeps it.
PcAfter(c) ==
    IF c.nullWrite THEN "crashed" ELSE IF c.spinning THEN "hung" ELSE "ready"

\* The ints a sweep buffer is persisted as.
RecordOf(res) == [k \in 1..Len(res) |-> ToInt(res[k])]

\* The state a save() call ends in.
SaveEnds(f, res, fine, array, c, rec, bg) ==
    /\ file' = f
    /\ results' = res
    /\ res2' = fine
    /\ calibrationArray' = array
    /\ call' = c
    /\ pc' = PcAfter(c)
    /\ persisted' = rec
    /\ begun' = bg

\* What save() has done once saveFile() returned sf.
Swept(c, sf) ==
    [c EXCEPT !.swept = TRUE,
              !.log = @ \o <<"Test Linearity">> \o sf.log,
              !.signals = @ \o SweepSignals \o sf.signals
                            \o <<triggerLed(sf.ok)>>]

\* What save() has done once calibration() returned cal.
Validated(c, cal, acc0) ==
    [c EXCEPT !.ret = cal.ok,
              !.spinning = cal.spinning,
              !.verdict = cal.verdict,
              !.sqErr = cal.sqErr,
              !.acc0 = acc0,
              !.log = @ \o cal.log,
              !.signals = @ \o cal.signals
                            \o (IF cal.spinning THEN <<>>
                                ELSE <<triggerLed(cal.ok)>>)]

\* The ADC readings of the validator for DAC codes 1..249.
ValReadings(vb) == [i \in 1..LastValCode |-> ValReading(vb, i)]

\* if (!triggerLed(calibration())) return false;  return true;
SaveValidated(lut, c, cal, acc0) ==
    SaveEnds(cal.file, <<>>, <<>>, cal.array, Validated(c, cal, acc0),
             IF cal.ok THEN RecordOf(lut) ELSE <<>>, FALSE)

\* if (!triggerLed(saveFile())) return false;  delete[] results;  then
\* calibration() under each behaviour of the ADC and of the accumulator.
SaveWritten(lut, c, sf) ==
    IF ~sf.ok
        THEN SaveEnds(sf.file, lut, <<>>, calibrationArray, Swept(c, sf),
                      <<>>, FALSE)
        ELSE \E vb \in ValBehaviours, acc0 \in GarbageFloats :
                SaveValidated(lut, [Swept(c, sf) EXCEPT !.valAdc = vb],
                    calibration(fileType, sf.file,
                        openFile(fileType, sf.file, calibrationArray),
                        ValReadings(vb), acc0),
                    acc0)

\* generateLut() has built lut; saveFile() writes it.
SaveSwept(lut, c, canOpen) ==
    SaveWritten(lut, c, saveFile(fileType, file, lut, canOpen))

\* save().  A null array is <<>>.
\*   mount    whether SPIFFS.begin succeeds
\*   b        the ADC behaviour during the sweep
\*   canOpen  whether the record can be opened for writing
\*   vb       the ADC behaviour during validation
\*   acc0     the initial content of the validator's accumulator
Save ==
    /\ pc = "ready"
    /\ \E mount \in BOOLEAN :
        IF ~spiffsRun(mount).ok
            \* if (!spiffsRun()) return false;
            THEN SaveEnds(file, results, res2, calibrationArray,
                          Mounting("save", spiffsRun(mount)),
                          persisted, begun)
        ELSE IF results = <<>> \/ res2 = <<>>
            \* generateLut() writes through the freed (null) pointer.
            THEN SaveEnds(file, results, res2, calibrationArray,
                          [Mounting("save", spiffsRun(mount)) EXCEPT
                              !.swept = TRUE, !.nullWrite = TRUE],
                          <<>>, FALSE)
        ELSE \E b \in AdcBehaviours, canOpen \in BOOLEAN :
                SaveSwept(IF results = ZeroArray(RecordSize)
                              THEN LutFromZero[b]
                              ELSE generateLut(results, b),
                          [Mounting("save", spiffsRun(mount)) EXCEPT
                              !.sweepAdc = b],
                          canOpen)
    /\ UNCHANGED <<fileType, useCalibration>>

\* The state a begin() call ends in.
BeginEnds(r, mount) ==
    /\ calibrationArray' = r.array
    /\ useCalibration' = r.useCalibration
    /\ call' = r.call
    /\ pc' = PcAfter(r.call)
    /\ begun' = (begun \/ (mount /\ persisted # <<>>))

Begin ==
    /\ pc = "ready"
    /\ \E mount \in BOOLEAN :
          BeginEnds(begin(fileType, file, calibrationArray, useCalibration,
                          mount), mount)
    /\ UNCHANGED <<fileType, file, results, res2, persisted>>

Read ==
    /\ pc = "ready"
    /\ \E readValue \in AdcReadings :
          call' = [NoCall EXCEPT
                      !.op = "read", !.raw = readValue,
                      !.value = read(calibrationArray, useCalibration,
                                     readValue)]
    /\ UNCHANGED <<fileType, file, results, res2, calibrationArray,
                   useCalibration, pc, persisted, begun>>

\* Another writer replaces or removes the file between two calls.
StorageWrite ==
    /\ pc = "ready"
    /\ \E f \in Files(fileType) :
          /\ f # file
          /\ file' = f
    /\ call' = [NoCall EXCEPT !.op = "storage"]
    /\ persisted' = <<>>
    /\ begun' = FALSE
    /\ UNCHANGED <<fileType, results, res2, calibrationArray,
                   useCalibration, pc>>

Next == Save \/ Begin \/ Read \/ StorageWrite

Spec == Init /\ [][Next]_vars

\* ------------------------------------------------------- codec alone
\* The save path and the load path of a session on their own: a sweep
\* buffer of 4097 integral values in the range of the ADC is written by
\* saveFile() to an empty path and read back by openFile() into a
\* calibrationArray that is zeroed or holds an earlier table.

CodecTypes == {".txt", ".bin", ".json"}

\* The values 0..4095 of a 12-bit table entry.
AdcRange == 4096

CodecSlopes == {0, 1, 85, 1000}

CodecOffsets == {0, 3, 255, 4095}

CodecValues(slope, offset) ==
    [k \in 1..RecordSize |-> (slope * (k - 1) + offset) % AdcRange]

CodecBuffers ==
    {FloatArray(CodecValues(a, c)) : a \in CodecSlopes, c \in CodecOffsets}

CodecInit ==
    /\ fileType \in CodecTypes
    /\ file = NoFile(fileType)
    /\ results \in CodecBuffers
    /\ res2 = ZeroArray(TableSize * Over)
    /\ calibrationArray \in {ZeroArray(TableSize),
                             SubSeq(IdentityRecord, 1, TableSize)}
    /\ useCalibration = FALSE
    /\ pc = "ready"
    /\ call = NoCall
    /\ persisted = <<>>
    /\ begun = FALSE

PersistEnds(sf) ==
    /\ file' = sf.file
    /\ call' = [NoCall EXCEPT !.op = "persist", !.ret = sf.ok,
                              !.log = sf.log]

\* saveFile() on the sweep buffer.
Persist ==
    /\ call.op = "none"
    /\ PersistEnds(saveFile(fileType, file, results, TRUE))
    /\ UNCHANGED <<fileType, results, res2, calibrationArray,
                   useCalibration, pc, persisted, begun>>

ReloadEnds(load) ==
    /\ calibrationArray' = load.array
    /\ call' = [NoCall EXCEPT !.op = "reload", !.ret = load.ok,
                              !.spinning = load.spinning, !.log = load.log]

\* openFile() on what saveFile() wrote.
Reload ==
    /\ call.op = "persist"
    /\ call.ret
    /\ ReloadEnds(openFile(fileType, file, calibrationArray))
    /\ UNCHANGED <<fileType, file, results, res2, useCalibration, pc,
                   persisted, begun>>

CodecNext == Persist \/ Reload

CodecSpec == CodecInit /\ [][CodecNext]_vars

\* ======================================================== properties
\* A state with call.op = "begin" (or "save", "read") is the state the call
\* returned in, or stopped in: every step sets call to the call it was.

\* The call of that name has returned.
Returned(op) == call.op = op /\ ~call.nullWrite /\ ~call.spinning

\* A line is among the lines a call logged.
Logged(c, line) == \E n \in 1..Len(c.log) : c.log[n] = line

\* A signal is among the signals a call emitted.
Signalled(c, pulse) == \E n \in 1..Len(c.signals) : c.signals[n] = pulse

\* --------------------------------------------------------------------
\* What a record is, read off its payload and not off a load: the values it
\* holds, and whether it is a well-formed record of its encoding.

TxtWellFormed(data) ==
    /\ data # <<>>
    /\ \A p \in 1..Len(data) :
          IsDigit(data[p]) \/ data[p] = "," \/ data[p] = "-"

BinWellFormed(data) ==
    data # <<>> /\ Len(data) % SizeofInt = 0

JsonWellFormed(data) ==
    /\ data.parses
    /\ data.key = fileName
    /\ data.arr # <<>>
    /\ \A n \in 1..Len(data.arr) : data.arr[n].int

WellFormed(ft, f) ==
    /\ f.exists
    /\ CASE ft = ".txt"  -> TxtWellFormed(f.data)
         [] ft = ".bin"  -> BinWellFormed(f.data)
         [] ft = ".json" -> JsonWellFormed(f.data)
         [] OTHER        -> FALSE

\* The values of a well-formed record, in order.
RecordValues(ft, f) ==
    CASE ft = ".txt"  -> TxtValues(f.data)
      [] ft = ".bin"  -> [n \in 1..(Len(f.data) \div SizeofInt) |->
                             BytesInt(SubSeq(f.data, (n - 1) * SizeofInt + 1,
                                             n * SizeofInt))]
      [] ft = ".json" -> [n \in 1..Len(f.data.arr) |-> f.data.arr[n].v]
      [] OTHER        -> <<>>

\* The record exists, decodes, and holds a non-zero value at the sanity
\* index.
RecordUsable(ft, f) ==
    /\ WellFormed(ft, f)
    /\ Len(RecordValues(ft, f)) > SanityIdx
    /\ RecordValues(ft, f)[SanityIdx + 1] # 0

\* C1: after every begin() that mounted the storage and returned,
\* useCalibration is true if and only if the record exists, decodes without
\* error and holds a non-zero value at the sanity index; an absent,
\* malformed, empty or too short record leaves it false.
\* The code: a load stores what the payload holds and leaves the rest of
\* calibrationArray as it was, so a short, empty or damaged record is
\* judged by a stale entry at the sanity index.
C1_FlagIffRecordUsable ==
    (Returned("begin") /\ call.mounted)
        => (useCalibration <=> RecordUsable(fileType, file))

\* C2: after every begin() that returned, the boolean it returned is the
\* value of useCalibration that read() goes by.
\* The code: a failed mount returns false and leaves useCalibration as an
\* earlier begin() set it.
C2_ReturnsTheFlag ==
    Returned("begin") => (call.ret = useCalibration)

WithinThreshold(sqErr) == sqErr <= SqErrLimit

\* C4: for every series of readings and every loaded table, the validator
\* accepts if and only if the sum S of the squared corrected errors is
\* within the threshold.
\* The code: S is added to an accumulator that is never initialised, so the
\* verdict follows what the stack held.
C4_AcceptIffWithinThreshold ==
    (Returned("save") /\ call.verdict # "none")
        => ((call.verdict = "accept") <=> WithinThreshold(call.sqErr))

\* C5: whenever save() runs the LUT builder, the sweep buffer and the fine
\* grid it writes are allocated.
\* The code: generateLut() frees res2, save() frees results, and nothing
\* allocates them again, so the next save() that mounts writes through a
\* null pointer.
C5_BuffersAllocated ==
    (call.op = "save" /\ call.swept) => ~call.nullWrite

\* C6: every load terminates: a begin() or save() never stays in the read
\* loop of a load.
\* The code: the read loop of the binary load,
\*   while (bytesRead != sizeof(int)) { bytesRead = file.read(...); attempts++; }
\* has no exit on attempts, and attempts is compared with maxAttempts only
\* after the loop; a payload that ends in a partial element keeps it
\* running.
C6_LoadTerminates ==
    (call.op \in {"begin", "save"}) => ~call.spinning

\* The load made by a call returned true.
LoadSucceeded(c) ==
    \/ Logged(c, "int array read")
    \/ Logged(c, "int array read from binary file")
    \/ Logged(c, "JSON file successfully read")

OverflowLine == "array size exceeded, some values were not read"

\* C7: in each encoding, a load of a record that holds more elements than
\* the destination stores exactly the first TableSize of them, succeeds,
\* and logs the overflow.
\* The code: only the JSON load has the else branch that logs; the text
\* and binary loads leave their loops on index < maxSize without a word.
C7_OverflowTruncatesAndLogs ==
    (/\ Returned("begin")
     /\ call.mounted
     /\ WellFormed(fileType, file)
     /\ Len(RecordValues(fileType, file)) > TableSize)
        => /\ calibrationArray =
                  SubSeq(RecordValues(fileType, file), 1, TableSize)
           /\ LoadSucceeded(call)
           /\ Logged(call, OverflowLine)

\* C9: a save() whose mount fails returns false, signals the failure with a
\* long pulse on led2, does not sweep, and leaves the record, the table,
\* the buffers and useCalibration as they were.
C9_MountFailureAborts ==
    [][(call'.op = "save" /\ ~call'.mounted)
          => /\ ~call'.ret
             /\ Signalled(call', Pulse(2, TRUE))
             /\ ~call'.swept
             /\ file' = file
             /\ calibrationArray' = calibrationArray
             /\ useCalibration' = useCalibration
             /\ results' = results
             /\ res2' = res2]_vars

\* C9 happens: a save() that could not mount, on a session that has a
\* record in storage and is serving its table.
C9_MountFailure ==
    /\ call.op = "save"
    /\ ~call.mounted
    /\ file.exists
    /\ useCalibration

C8_RoundTripIdentical ==
    (call.op = "reload")
        => (call.ret /\ calibrationArray = RecordOf(results))

\* C8 as the code has it: in each encoding the load succeeds and reads
\* back the first 4096 of the 4097 values, in order; the last one is
\* dropped.
C8_RoundTripFirstValues ==
    (call.op = "reload")
        => /\ call.ret
           /\ ~call.spinning
           /\ calibrationArray = SubSeq(RecordOf(results), 1, TableSize)

\* C8 happens: a binary record with values that need more than one byte,
\* read back over an earlier table.
C8_Reloaded ==
    /\ call.op = "reload"
    /\ fileType = ".bin"
    /\ calibrationArray[1] > 255
    /\ calibrationArray[TableSize] > 255
    /\ RecordOf(results)[RecordSize] # calibrationArray[TableSize]

\* C11: with an encoding that is none of the three supported ones, save()
\* and begin() each return false and each emit a failure signal (a long
\* pulse on led2).
\* The code: save() signals through saveFile() and triggerLed(); begin()
\* returns on !openFile() without a call to triggerLed or ledIndication.
C11_UnsupportedEncodingFailsHard ==
    (/\ call.op \in {"save", "begin"}
     /\ ~call.nullWrite
     /\ fileType \notin CodecTypes)
        => (~call.ret /\ Signalled(call, Pulse(2, TRUE)))

\* C12: once the LUT builder has run in a save(), entry 0 of the table it
\* built is 0 under every behaviour of the ADC during the sweep, and so is
\* the first value of the record that save() persists.
C12_FirstEntryZero ==
    /\ \A b \in AdcBehaviours : LutFromZero[b][1] = 0
    /\ (call.op = "save" /\ call.swept /\ ~call.nullWrite)
          => /\ results # <<>> => results[1] = 0
             /\ file.exists => /\ WellFormed(fileType, file)
                               /\ RecordValues(fileType, file)[1] = 0
             /\ persisted # <<>> => persisted[1] = 0

\* C12 happens: a save() whose sweep saw an ADC stuck at zero, so that the
\* table is 0 at entry 0 and well above 0 right after it, has written its
\* record.
C12_ForcedZeroPersisted ==
    /\ call.op = "save"
    /\ Logged(call, "Float array saved")
    /\ file.exists
    /\ RecordValues(fileType, file)[1] = 0
    /\ RecordValues(fileType, file)[2] > 1

\* A corrected error of at most a tenth of the threshold (0.1 %): a sum of
\* squared errors of at most a hundredth of SqErrLimit.
FarBelowThreshold(sqErr) == sqErr * 100 <= SqErrLimit

\* C13: with a noiseless loopback (every reading is the DAC code times 16,
\* in the sweep and in the validation) the table built has entry i within
\* one code of i for every i, and the validator accepts it with a corrected
\* error far below the threshold.
\* The code: the table is as stated and the measured error is one code at
\* every DAC code, but the verdict is taken on that error added to an
\* accumulator that is never initialised.
C13_LoopbackBuiltAndAccepted ==
    /\ \A i \in 0..(TableSize - 1) :
          Abs(ToInt(At(LutFromZero["linear"], i)) - i) <= 1
    /\ (/\ Returned("save")
        /\ call.sweepAdc = "linear"
        /\ call.valAdc = "linear"
        /\ Logged(call, "Float array saved"))
          => /\ call.verdict = "accept"
             /\ call.ret
             /\ FarBelowThreshold(call.sqErr)

\* C14: when useCalibration is true read() returns exactly the table's
\* entry at the raw reading, for every raw reading in range; when it is
\* false the value returned is the fixed polynomial's at the raw reading,
\* whatever the table holds.
C14_CorrectorConsistent ==
    (call.op = "read")
        => /\ call.raw \in 0..(TableSize - 1)
           /\ useCalibration => call.value = calibrationArray[call.raw + 1]
           /\ ~useCalibration => call.value = Polynomial(call.raw)

\* C14 happens: read() took the table path and returned an entry that the
\* polynomial would not have given.
C14_TableServed ==
    /\ call.op = "read"
    /\ useCalibration
    /\ call.value = calibrationArray[call.raw + 1]
    /\ call.value # Polynomial(call.raw)

\* C15: the fine grid is a 5x-oversampled linear interpolation of the offset
\* sweep buffer: FineGrid[i*5+j] = buffer[i] + (buffer[i+1] - buffer[i]) * j/5
\* for every i in 0..4095 and j in 0..4, buffer[4096] = 4095.5 closing the
\* last interval, so that the five sub-samples are evenly spaced across the
\* whole interval between adjacent buffer entries.
\* The code: divides by 10, so the five sub-samples of an interval lie in its
\* lower half.
C15_FineGridSpansInterval ==
    (call.op = "save" /\ call.swept /\ ~call.nullWrite)
        => /\ At(OffsetFromZero[call.sweepAdc], TableSize)
                 = (TableSize - 1) * Q + (Q \div 2)
           /\ \A i \in 0..(TableSize - 1), j \in 0..(Over - 1) :
                 At(FineFromZero[call.sweepAdc], i * Over + j)
                     = At(OffsetFromZero[call.sweepAdc], i)
                       + ((At(OffsetFromZero[call.sweepAdc], i + 1)
                           - At(OffsetFromZero[call.sweepAdc], i)) * j)
                         \div Over

\* C16: read() never serves a value from a table that the validator
\* rejected: when a save() has ended in rejection, the table that
\* calibration() loaded and judged is the one in calibrationArray, and a
\* read() that follows does not take the table path on that array.
\* The code: a rejection deletes the record and makes save() return false,
\* but leaves useCalibration as an earlier begin() set it and leaves the
\* rejected table in calibrationArray.
C16_RejectedTableNotServed ==
    [][(/\ call.op = "save"
        /\ call.verdict = "reject"
        /\ call'.op = "read")
          => ~(useCalibration' /\ calibrationArray' = calibrationArray)]_vars

\* C17: after any load that reports success, in any encoding and after any
\* earlier loads, every entry of calibrationArray equals the value at the
\* same position of the record now persisted, and no entry keeps a value
\* left by an earlier load of a different record (an entry the record has
\* no value for is as the constructor left it, zero).
\* The code: a load stores the values the record holds from index 0 on and
\* touches nothing beyond them, so after a shorter record the tail of an
\* earlier, longer one stays in place.
C17_NoStaleEntries ==
    (/\ call.op \in {"begin", "save"}
     /\ ~call.nullWrite
     /\ LoadSucceeded(call)
     /\ WellFormed(fileType, file))
        => \A k \in 1..TableSize :
              calibrationArray[k]
                  = IF k <= Len(RecordValues(fileType, file))
                        THEN RecordValues(fileType, file)[k]
                        ELSE 0

=============================================================================
